---- MODULE Spec2Model ----
(***************************************************************************)
(* Model of rag-frontend/src/App.jsx: the chat transcript driven by the    *)
(* WebSocket callbacks, sendMessage and clearChat (Spec), and the document *)
(* directory driven by fetchDocuments, handleFileUpload and deleteDocument *)
(* (DocSpec).                                                              *)
(*                                                                         *)
(* Texts are sequences of one-character strings, so that trim() and        *)
(* concatenation are computed rather than assumed.                         *)
(*                                                                         *)
(* React state (useState) of the chat is the committed value plus the      *)
(* queue `pending` of the updates that handlers have issued and React has  *)
(* not applied yet.  A handler issues its updates in program order and     *)
(* Render applies the whole queue in order.  An updater function (the      *)
(* argument of setMessages) runs when it is applied and reads              *)
(* currentResponseRef as it is then; React may also run it at once when    *)
(* nothing is queued.  A build that applies every update synchronously is  *)
(* the behaviour in which Render follows each handler at once.  The        *)
(* handlers read the committed values (their closure is the last render).  *)
(* setCurrentMessage, setDocuments and setUploadProgress set plain values  *)
(* that no callback reads before they are rendered; they are committed     *)
(* with the handler.                                                       *)
(*                                                                         *)
(* `sent` records the calls of websocketRef.current.send.  A fetch is a    *)
(* request in flight that the backend answers and whose answer the client  *)
(* handles later, in any order.                                            *)
(***************************************************************************)
EXTENDS Integers, Sequences, FiniteSets, TLC

VARIABLES
    messages,            \* useState([])   the transcript (committed)
    currentMessage,      \* useState('')   the input text
    isConnected,         \* useState(false) ConnectionState
    isStreaming,         \* useState(false) the streaming gate
    currentResponseRef,  \* useRef('')     the accumulation buffer
    readyState,          \* websocketRef.current: "connecting" | "open" | "errored" | "closed"
    pending,             \* state updates issued and not yet applied
    sent,                \* payloads handed to websocketRef.current.send, in order
    clearCalls,          \* POST /chat/clear requests in flight (a count)
    toasts,              \* antMessage notifications shown, in order
    inbound,             \* history: inbound events that a case of onmessage handled, in order
    clearsIssued,        \* history: number of clearChat calls made
    dropped,             \* history: number of inbound payloads that were no envelope
    ignored,             \* history: number of inbound envelopes of a type without a case
    documents,           \* useState([])   the document snapshot
    uploadProgress,      \* useState(null) the per-upload status
    calls,               \* document requests (fetch) in flight
    timers,              \* setTimeout callbacks armed and not yet run, oldest first,
                         \* each named by the file of the upload that armed it
    serverDocs,          \* the backend's document collection
    docOps,              \* history: number of document operations the user started
    uploadsDone,         \* history: number of uploads that completed with a 2xx response
    documentsAt          \* history: uploadsDone when the list() now shown was issued

chatVars == <<messages, currentMessage, isConnected, isStreaming, currentResponseRef,
              readyState, pending, sent, clearCalls, inbound, clearsIssued, dropped, ignored>>

docVars == <<documents, uploadProgress, calls, timers, serverDocs, docOps,
             uploadsDone, documentsAt>>

vars == <<messages, currentMessage, isConnected, isStreaming, currentResponseRef,
          readyState, pending, sent, clearCalls, toasts, inbound, clearsIssued,
          dropped, ignored, documents, uploadProgress, calls, timers, serverDocs, docOps,
          uploadsDone, documentsAt>>

-----------------------------------------------------------------------------
(* Bounds *)

\* inbound events, accepted sends and Clear clicks in one behaviour
MaxInputs == 3
\* Refresh clicks, uploads and deletes in one behaviour
MaxDocOps == 2

(* Inputs *)

Fragments == { <<"a">>, <<"b">> }
ErrorTexts == { <<"e">> }
InputTexts == { <<>>, <<" ">>, <<" ", "x">> }
ClearOutcomes == { "ok", "status", "network" }
FileNames == { "a.txt", "b.csv" }
\* a fetch resolves with a 2xx response ("ok"), resolves with another status
\* ("status"; for GET /documents with a JSON body, "status_json", or with a
\* body that is not JSON, "status_text"), or rejects ("network")
ListOutcomes == { "ok", "status_json", "status_text", "network" }
MutationOutcomes == { "ok", "status", "network" }

-----------------------------------------------------------------------------
(* Pure helpers *)

IsWhitespace(c) == c = " "

RECURSIVE TrimStart(_)
TrimStart(s) ==
    IF s = <<>> THEN s
    ELSE IF IsWhitespace(Head(s)) THEN TrimStart(Tail(s)) ELSE s

RECURSIVE TrimEnd(_)
TrimEnd(s) ==
    IF s = <<>> THEN s
    ELSE IF IsWhitespace(s[Len(s)]) THEN TrimEnd(SubSeq(s, 1, Len(s) - 1)) ELSE s

\* String.prototype.trim
Trim(s) == TrimEnd(TrimStart(s))

\* message.isStreaming as a condition: a missing field is undefined, which is falsy
IsStreamingOf(m) == IF "isStreaming" \in DOMAIN m THEN m.isStreaming ELSE FALSE

\* JSON.stringify({ message: currentMessage })
Envelope(text) == [message |-> text]

-----------------------------------------------------------------------------
(* The updater functions passed to setMessages *)

\* prev => [...prev, { type: 'assistant', content: '', isStreaming: true }]
StartUpdater(prev) ==
    Append(prev, [type |-> "assistant", content |-> <<>>, isStreaming |-> TRUE])

\* TokenUpdater without the isStreaming test of its condition
TokenUpdaterAnyAssistant(prev, ref) ==
    IF Len(prev) > 0 /\ prev[Len(prev)].type = "assistant"
    THEN [prev EXCEPT ![Len(prev)].content = ref]
    ELSE prev

\* the token updater; ref is currentResponseRef.current when the updater runs
TokenUpdater(prev, ref) ==
    IF /\ Len(prev) > 0
       /\ prev[Len(prev)].type = "assistant"
       /\ IsStreamingOf(prev[Len(prev)])
    THEN [prev EXCEPT ![Len(prev)].content = ref]
    ELSE prev

\* CompleteUpdater without the test of the last entry's type
CompleteUpdaterAnyEntry(prev) ==
    IF Len(prev) > 0
    THEN [prev EXCEPT ![Len(prev)] =
            [type |-> prev[Len(prev)].type, content |-> prev[Len(prev)].content,
             isStreaming |-> FALSE]]
    ELSE prev

\* the complete updater
CompleteUpdater(prev) ==
    IF Len(prev) > 0 /\ prev[Len(prev)].type = "assistant"
    THEN [prev EXCEPT ![Len(prev)] =
            [type |-> "assistant", content |-> prev[Len(prev)].content, isStreaming |-> FALSE]]
    ELSE prev

\* ErrorUpdater that also ends the stream of the entry before the new one
ErrorUpdaterEndingStream(prev, data) ==
    Append(CompleteUpdater(prev), [type |-> "error", content |-> data])

\* prev => [...prev, { type: 'error', content: data.data }]
ErrorUpdater(prev, data) == Append(prev, [type |-> "error", content |-> data])

\* UserUpdater that stores the trimmed text
UserUpdaterTrimmed(prev, text) == Append(prev, [type |-> "user", content |-> Trim(text)])

\* prev => [...prev, { type: 'user', content: currentMessage }]
UserUpdater(prev, text) == Append(prev, [type |-> "user", content |-> text])

-----------------------------------------------------------------------------
(* Applying queued updates *)

\* one queued update applied to the record st of the four useState values
ApplyUpdate(st, u, ref) ==
    CASE u.op = "start"          -> [st EXCEPT !.messages = StartUpdater(st.messages)]
      [] u.op = "token"          -> [st EXCEPT !.messages =
                                        TokenUpdater(st.messages, IF u.eager THEN u.ref ELSE ref)]
      [] u.op = "complete"       -> [st EXCEPT !.messages = CompleteUpdater(st.messages)]
      [] u.op = "error"          -> [st EXCEPT !.messages = ErrorUpdater(st.messages, u.data)]
      [] u.op = "user"           -> [st EXCEPT !.messages = UserUpdater(st.messages, u.data)]
      [] u.op = "clear"          -> [st EXCEPT !.messages = <<>>]
      [] u.op = "setIsStreaming" -> [st EXCEPT !.isStreaming = u.value]
      [] u.op = "setIsConnected" -> [st EXCEPT !.isConnected = u.value]

RECURSIVE ApplyAll(_, _, _)
ApplyAll(st, q, ref) ==
    IF q = <<>> THEN st
    ELSE ApplyAll(ApplyUpdate(st, Head(q), ref), Tail(q), ref)

Committed == [messages |-> messages, isStreaming |-> isStreaming, isConnected |-> isConnected]

\* the state React commits once every queued update has been applied
Settled == ApplyAll(Committed, pending, currentResponseRef)

-----------------------------------------------------------------------------
(* The document directory: values *)

\* a parsed JSON body: the array of DocumentRecords (here their filenames, in
\* the backend's order), or an object that is not an array
ArrayBody(items) == [array |-> TRUE, items |-> items]
ObjectBody == [array |-> FALSE, items |-> <<>>]

\* uploadProgress: null, or { filename, status }
NoProgress == [filename |-> "", status |-> "none"]
Progress(filename, status) == [filename |-> filename, status |-> status]

\* a fetch in flight: op is "list" | "upload" | "delete", file the file it is
\* about (for a list, the file of the upload that awaits it), after the handler that awaits a list ("upload" | "delete" | "none"),
\* outcome "pending" until the backend has answered, items the array of a 2xx
\* list response, at the number of completed uploads when it was issued
Call(op, file, after, at) ==
    [op |-> op, file |-> file, after |-> after, outcome |-> "pending", items |-> <<>>,
     at |-> at]

Range(seq) == { seq[i] : i \in 1..Len(seq) }

RemoveAt(seq, i) == SubSeq(seq, 1, i - 1) \o SubSeq(seq, i + 1, Len(seq))

\* the backend's collection after an upload and after a delete
WithDoc(docs, file) == IF file \in Range(docs) THEN docs ELSE Append(docs, file)
WithoutDoc(docs, file) == SelectSeq(docs, LAMBDA f : f # file)

-----------------------------------------------------------------------------
Init ==
    /\ messages = <<>>
    /\ currentMessage = <<>>
    /\ isConnected = FALSE
    /\ isStreaming = FALSE
    /\ currentResponseRef = <<>>
    /\ readyState = "connecting"
    /\ pending = <<>>
    /\ sent = <<>>
    /\ clearCalls = 0
    /\ toasts = <<>>
    /\ inbound = <<>>
    /\ clearsIssued = 0
    /\ dropped = 0
    /\ ignored = 0
    /\ documents = ArrayBody(<<>>)
    /\ uploadProgress = NoProgress
    /\ calls = << Call("list", "", "none", 0) >>
    /\ timers = <<>>
    /\ serverDocs = <<"a.txt">>
    /\ docOps = 0
    /\ uploadsDone = 0
    /\ documentsAt = 0

-----------------------------------------------------------------------------
(* React applies the queued updates *)

Render ==
    /\ pending # <<>>
    /\ LET st == Settled IN
        /\ messages' = st.messages
        /\ isStreaming' = st.isStreaming
        /\ isConnected' = st.isConnected
    /\ pending' = <<>>
    /\ UNCHANGED <<currentMessage, currentResponseRef, readyState, sent, clearCalls,
                   toasts, inbound, clearsIssued, dropped, ignored, docVars>>

-----------------------------------------------------------------------------
(* WebSocket callbacks *)

OnOpen ==
    /\ readyState = "connecting"
    /\ readyState' = "open"
    /\ pending' = Append(pending, [op |-> "setIsConnected", value |-> TRUE])
    /\ UNCHANGED <<messages, currentMessage, isConnected, isStreaming, currentResponseRef,
                   sent, clearCalls, toasts, inbound, clearsIssued, dropped, ignored, docVars>>

\* OnClose that only ends the stream
OnCloseKeepingConnected ==
    /\ readyState \in {"connecting", "open", "errored"}
    /\ readyState' = "closed"
    /\ pending' = Append(pending, [op |-> "setIsStreaming", value |-> FALSE])
    /\ UNCHANGED <<messages, currentMessage, isConnected, isStreaming, currentResponseRef,
                   sent, clearCalls, toasts, inbound, clearsIssued, dropped, ignored, docVars>>

OnClose ==
    /\ readyState \in {"connecting", "open", "errored"}
    /\ readyState' = "closed"
    /\ pending' = pending \o << [op |-> "setIsConnected", value |-> FALSE],
                                [op |-> "setIsStreaming", value |-> FALSE] >>
    /\ UNCHANGED <<messages, currentMessage, isConnected, isStreaming, currentResponseRef,
                   sent, clearCalls, toasts, inbound, clearsIssued, dropped, ignored, docVars>>

OnError ==
    /\ readyState \in {"connecting", "open"}
    /\ readyState' = "errored"
    /\ pending' = Append(pending, [op |-> "setIsConnected", value |-> FALSE])
    /\ UNCHANGED <<messages, currentMessage, isConnected, isStreaming, currentResponseRef,
                   sent, clearCalls, toasts, inbound, clearsIssued, dropped, ignored, docVars>>

\* the inputs taken so far are within the bound
WithinBound == Len(inbound) + dropped + ignored + Len(sent) + clearsIssued < MaxInputs

\* an inbound event can be delivered
CanReceive == readyState = "open" /\ WithinBound

OnMessageStart ==
    /\ CanReceive
    /\ inbound' = Append(inbound, [type |-> "start"])
    /\ currentResponseRef' = <<>>
    /\ pending' = pending \o << [op |-> "setIsStreaming", value |-> TRUE], [op |-> "start"] >>
    /\ UNCHANGED <<messages, currentMessage, isConnected, isStreaming, readyState, sent,
                   clearCalls, toasts, clearsIssued, dropped, ignored, docVars>>

\* React may run an updater at once (eager) when no update is queued, and runs
\* it when the queue is applied otherwise; eager tells which, and ref is the
\* buffer an eager run read
OnMessageToken(data, eager) ==
    /\ CanReceive
    /\ eager => pending = <<>>
    /\ inbound' = Append(inbound, [type |-> "token", data |-> data])
    /\ currentResponseRef' = currentResponseRef \o data
    /\ pending' = Append(pending, [op |-> "token", eager |-> eager,
                                   ref |-> IF eager THEN currentResponseRef' ELSE <<>>])
    /\ UNCHANGED <<messages, currentMessage, isConnected, isStreaming, readyState, sent,
                   clearCalls, toasts, clearsIssued, dropped, ignored, docVars>>

\* a token envelope without data: data.data is undefined, and += on a string
\* appends the text "undefined"
UndefinedText == <<"u", "n", "d", "e", "f", "i", "n", "e", "d">>

OnMessageTokenNoData(eager) ==
    /\ CanReceive
    /\ eager => pending = <<>>
    /\ inbound' = Append(inbound, [type |-> "token without data"])
    /\ currentResponseRef' = currentResponseRef \o UndefinedText
    /\ pending' = Append(pending, [op |-> "token", eager |-> eager,
                                   ref |-> IF eager THEN currentResponseRef' ELSE <<>>])
    /\ UNCHANGED <<messages, currentMessage, isConnected, isStreaming, readyState, sent,
                   clearCalls, toasts, clearsIssued, dropped, ignored, docVars>>

OnMessageComplete ==
    /\ CanReceive
    /\ inbound' = Append(inbound, [type |-> "complete"])
    /\ pending' = pending \o << [op |-> "setIsStreaming", value |-> FALSE], [op |-> "complete"] >>
    /\ UNCHANGED <<messages, currentMessage, isConnected, isStreaming, currentResponseRef,
                   readyState, sent, clearCalls, toasts, clearsIssued, dropped, ignored, docVars>>

OnMessageError(data) ==
    /\ CanReceive
    /\ inbound' = Append(inbound, [type |-> "error", data |-> data])
    /\ pending' = pending \o << [op |-> "setIsStreaming", value |-> FALSE],
                                [op |-> "error", data |-> data] >>
    /\ toasts' = Append(toasts, "Error occurred while processing your message")
    /\ UNCHANGED <<messages, currentMessage, isConnected, isStreaming, currentResponseRef,
                   readyState, sent, clearCalls, clearsIssued, dropped, ignored, docVars>>

\* payloads that are not envelopes: "not json" makes JSON.parse throw, and the
\* handler ends there; "number" parses to a value whose type is undefined,
\* which no case of the switch matches
BadPayloads == {"not json", "number"}

OnMessageDropped(kind) ==
    /\ CanReceive
    /\ kind \in BadPayloads
    /\ dropped' = dropped + 1
    /\ UNCHANGED <<messages, currentMessage, isConnected, isStreaming, currentResponseRef,
                   readyState, pending, sent, clearCalls, toasts, inbound, clearsIssued,
                   ignored, docVars>>

\* envelope types that the switch has no case for
OtherTypes == {"ping"}

\* OnMessageOther that takes an unknown type for the end of the response
OnMessageOtherAsComplete(type) ==
    /\ CanReceive
    /\ type \in OtherTypes
    /\ ignored' = ignored + 1
    /\ pending' = pending \o << [op |-> "setIsStreaming", value |-> FALSE], [op |-> "complete"] >>
    /\ UNCHANGED <<messages, currentMessage, isConnected, isStreaming, currentResponseRef,
                   readyState, sent, clearCalls, toasts, inbound, clearsIssued, dropped,
                   docVars>>

\* an envelope of a type outside start, token, complete, error: no case
\* matches and there is no default
OnMessageOther(type) ==
    /\ CanReceive
    /\ type \in OtherTypes
    /\ ignored' = ignored + 1
    /\ UNCHANGED <<messages, currentMessage, isConnected, isStreaming, currentResponseRef,
                   readyState, pending, sent, clearCalls, toasts, inbound, clearsIssued,
                   dropped, docVars>>

-----------------------------------------------------------------------------
(* User actions on the chat panel *)

\* disabled={!isConnected || isStreaming} of the TextArea
TextAreaDisabled == ~isConnected \/ isStreaming

\* disabled={!isConnected || isStreaming || !currentMessage.trim()} of the Send button
SendButtonDisabled == ~isConnected \/ isStreaming \/ Trim(currentMessage) = <<>>

\* the TextArea's onChange: setCurrentMessage(e.target.value)
ChangeInput(text) ==
    /\ ~TextAreaDisabled
    /\ text # currentMessage
    /\ currentMessage' = text
    /\ UNCHANGED <<messages, isConnected, isStreaming, currentResponseRef, readyState,
                   pending, sent, clearCalls, toasts, inbound, clearsIssued, dropped,
                   ignored, docVars>>

\* SendAllowed that tests the input without trim()
SendAllowedUntrimmed == ~(currentMessage = <<>> \/ ~isConnected \/ isStreaming)

\* the guard of sendMessage, the negation of its early return
SendAllowed == ~(Trim(currentMessage) = <<>> \/ ~isConnected \/ isStreaming)

sendMessage ==
    IF ~SendAllowed
    THEN UNCHANGED vars
    ELSE /\ WithinBound
         /\ pending' = Append(pending, [op |-> "user", data |-> currentMessage])
         /\ sent' = Append(sent, Envelope(currentMessage))
         /\ currentMessage' = <<>>
         /\ UNCHANGED <<messages, isConnected, isStreaming, currentResponseRef, readyState,
                        clearCalls, toasts, inbound, clearsIssued, dropped, ignored, docVars>>

\* Enter without Shift in the TextArea: preventDefault, then sendMessage; a
\* disabled TextArea receives no key
handleKeyPress == IF TextAreaDisabled THEN UNCHANGED vars ELSE sendMessage

\* a click on the Send button: onClick={sendMessage}; a disabled button does
\* not click
SendButton == IF SendButtonDisabled THEN UNCHANGED vars ELSE sendMessage

\* clearChat up to its await: the request is issued
clearChat ==
    /\ WithinBound
    /\ clearsIssued' = clearsIssued + 1
    /\ clearCalls' = clearCalls + 1
    /\ UNCHANGED <<messages, currentMessage, isConnected, isStreaming, currentResponseRef,
                   readyState, pending, sent, toasts, inbound, dropped, ignored, docVars>>

\* clearChatReturn that also clears the streaming gate
clearChatReturnResettingGate(outcome) ==
    /\ clearCalls > 0
    /\ clearCalls' = clearCalls - 1
    /\ IF outcome = "network"
       THEN /\ toasts' = Append(toasts, "Failed to clear chat")
            /\ UNCHANGED pending
       ELSE /\ pending' = pending \o << [op |-> "clear"],
                                        [op |-> "setIsStreaming", value |-> FALSE] >>
            /\ toasts' = Append(toasts, "Chat cleared successfully")
    /\ UNCHANGED <<messages, currentMessage, isConnected, isStreaming, currentResponseRef,
                   readyState, sent, inbound, clearsIssued, dropped, ignored, docVars>>

\* clearChat after its await: fetch resolved with a 2xx response ("ok"), resolved
\* with another status ("status"), or rejected ("network")
clearChatReturn(outcome) ==
    /\ clearCalls > 0
    /\ clearCalls' = clearCalls - 1
    /\ IF outcome = "network"
       THEN /\ toasts' = Append(toasts, "Failed to clear chat")
            /\ UNCHANGED pending
       ELSE /\ pending' = Append(pending, [op |-> "clear"])
            /\ toasts' = Append(toasts, "Chat cleared successfully")
    /\ UNCHANGED <<messages, currentMessage, isConnected, isStreaming, currentResponseRef,
                   readyState, sent, inbound, clearsIssued, dropped, ignored, docVars>>

-----------------------------------------------------------------------------
(* The document directory: the backend *)

\* the backend answers request i; the answer reaches the client later
BackendAnswer(i, outcome) ==
    /\ i \in 1..Len(calls)
    /\ calls[i].outcome = "pending"
    /\ outcome \in (IF calls[i].op = "list" THEN ListOutcomes ELSE MutationOutcomes)
    /\ calls' = [calls EXCEPT ![i] =
                    [@ EXCEPT !.outcome = outcome,
                              !.items = IF outcome = "ok" /\ calls[i].op = "list"
                                        THEN serverDocs ELSE <<>>]]
    /\ serverDocs' =
         IF outcome # "ok" THEN serverDocs
         ELSE CASE calls[i].op = "upload" -> WithDoc(serverDocs, calls[i].file)
                [] calls[i].op = "delete" -> WithoutDoc(serverDocs, calls[i].file)
                [] OTHER -> serverDocs
    /\ UNCHANGED <<documents, uploadProgress, timers, docOps, uploadsDone, documentsAt,
                   toasts, chatVars>>

-----------------------------------------------------------------------------
(* The document directory: the client *)

DocOpAllowed == docOps < MaxDocOps

\* fetchDocuments up to its first await, as the Refresh button calls it
fetchDocuments ==
    /\ DocOpAllowed
    /\ docOps' = docOps + 1
    /\ calls' = Append(calls, Call("list", "", "none", uploadsDone))
    /\ UNCHANGED <<documents, uploadProgress, timers, serverDocs, uploadsDone, documentsAt,
                   toasts, chatVars>>

\* what the handler awaiting fetchDocuments does when it returns
\* (handleFileUpload after line 181, deleteDocument after line 204)
AfterList(after, file, shown) ==
    CASE after = "upload" ->
            /\ toasts' = Append(shown, "File uploaded successfully!")
            /\ timers' = Append(timers, file)
      [] after = "delete" ->
            /\ toasts' = Append(shown, "Document deleted successfully")
            /\ UNCHANGED timers
      [] OTHER ->
            /\ toasts' = shown
            /\ UNCHANGED timers

\* fetchDocuments from the resolution of fetch on: response.json(), then
\* setDocuments; a rejected fetch or a body that is not JSON goes to the catch
fetchDocumentsReturn(i) ==
    /\ i \in 1..Len(calls)
    /\ calls[i].op = "list"
    /\ calls[i].outcome # "pending"
    /\ calls' = RemoveAt(calls, i)
    /\ IF calls[i].outcome \in {"network", "status_text"}
       THEN /\ UNCHANGED <<documents, documentsAt>>
            /\ AfterList(calls[i].after, calls[i].file,
                         Append(toasts, "Failed to fetch documents"))
       ELSE /\ documents' = IF calls[i].outcome = "ok"
                            THEN ArrayBody(calls[i].items) ELSE ObjectBody
            /\ documentsAt' = calls[i].at
            /\ AfterList(calls[i].after, calls[i].file, toasts)
    /\ UNCHANGED <<uploadProgress, serverDocs, docOps, uploadsDone, chatVars>>

\* handleFileUpload up to its await: a file was picked
handleFileUpload(file) ==
    /\ DocOpAllowed
    /\ docOps' = docOps + 1
    /\ uploadProgress' = Progress(file, "uploading")
    /\ toasts' = Append(toasts, "Uploading")
    /\ calls' = Append(calls, Call("upload", file, "none", uploadsDone))
    /\ UNCHANGED <<documents, timers, serverDocs, uploadsDone, documentsAt, chatVars>>

\* handleFileUpload from the resolution of fetch on, up to await fetchDocuments()
handleFileUploadReturn(i) ==
    /\ i \in 1..Len(calls)
    /\ calls[i].op = "upload"
    /\ calls[i].outcome # "pending"
    /\ IF calls[i].outcome = "ok"
       THEN /\ uploadProgress' = Progress(calls[i].file, "success")
            /\ uploadsDone' = uploadsDone + 1
            /\ calls' = Append(RemoveAt(calls, i),
                               Call("list", calls[i].file, "upload", uploadsDone'))
            /\ UNCHANGED <<toasts, timers>>
       ELSE /\ uploadProgress' = Progress(calls[i].file, "error")
            /\ toasts' = Append(toasts, "Upload failed!")
            /\ timers' = Append(timers, calls[i].file)
            /\ calls' = RemoveAt(calls, i)
            /\ UNCHANGED uploadsDone
    /\ UNCHANGED <<documents, serverDocs, docOps, documentsAt, chatVars>>

\* the callback of setTimeout(() => setUploadProgress(null), 3000)
UploadProgressTimeout ==
    /\ timers # <<>>
    /\ timers' = Tail(timers)
    /\ uploadProgress' = NoProgress
    /\ UNCHANGED <<documents, calls, serverDocs, docOps, uploadsDone, documentsAt,
                   toasts, chatVars>>

\* deleteDocument up to its await: the delete button of a listed document
deleteDocument(filename) ==
    /\ DocOpAllowed
    /\ documents.array
    /\ filename \in Range(documents.items)
    /\ docOps' = docOps + 1
    /\ calls' = Append(calls, Call("delete", filename, "none", uploadsDone))
    /\ UNCHANGED <<documents, uploadProgress, timers, serverDocs, uploadsDone, documentsAt,
                   toasts, chatVars>>

\* deleteDocumentReturn that refreshes the list whatever the response was
deleteDocumentReturnAlwaysLists(i) ==
    /\ i \in 1..Len(calls)
    /\ calls[i].op = "delete"
    /\ calls[i].outcome # "pending"
    /\ calls' = Append(RemoveAt(calls, i), Call("list", "", "delete", uploadsDone))
    /\ IF calls[i].outcome = "ok"
       THEN UNCHANGED toasts
       ELSE toasts' = Append(toasts, "Failed to delete document")
    /\ UNCHANGED <<documents, uploadProgress, timers, serverDocs, docOps, uploadsDone,
                   documentsAt, chatVars>>

\* deleteDocument from the resolution of fetch on, up to await fetchDocuments()
deleteDocumentReturn(i) ==
    /\ i \in 1..Len(calls)
    /\ calls[i].op = "delete"
    /\ calls[i].outcome # "pending"
    /\ IF calls[i].outcome = "ok"
       THEN /\ calls' = Append(RemoveAt(calls, i), Call("list", "", "delete", uploadsDone))
            /\ UNCHANGED toasts
       ELSE /\ calls' = RemoveAt(calls, i)
            /\ toasts' = Append(toasts, "Failed to delete document")
    /\ UNCHANGED <<documents, uploadProgress, timers, serverDocs, docOps, uploadsDone,
                   documentsAt, chatVars>>

-----------------------------------------------------------------------------
Next ==
    \/ Render
    \/ OnOpen
    \/ OnClose
    \/ OnError
    \/ OnMessageStart
    \/ \E data \in Fragments, eager \in BOOLEAN : OnMessageToken(data, eager)
    \/ \E eager \in BOOLEAN : OnMessageTokenNoData(eager)
    \/ OnMessageComplete
    \/ \E data \in ErrorTexts : OnMessageError(data)
    \/ \E kind \in BadPayloads : OnMessageDropped(kind)
    \/ \E type \in OtherTypes : OnMessageOther(type)
    \/ \E text \in InputTexts : ChangeInput(text)
    \/ handleKeyPress
    \/ SendButton
    \/ clearChat
    \/ \E outcome \in ClearOutcomes : clearChatReturn(outcome)

Spec == Init /\ [][Next]_vars

\* the document directory on its own
DocNext ==
    \/ \E i \in 1..Len(calls), outcome \in ListOutcomes \cup MutationOutcomes :
            BackendAnswer(i, outcome)
    \/ fetchDocuments
    \/ \E i \in 1..Len(calls) : fetchDocumentsReturn(i)
    \/ \E file \in FileNames : handleFileUpload(file)
    \/ \E i \in 1..Len(calls) : handleFileUploadReturn(i)
    \/ UploadProgressTimeout
    \/ \E filename \in FileNames : deleteDocument(filename)
    \/ \E i \in 1..Len(calls) : deleteDocumentReturn(i)

DocSpec == Init /\ [][DocNext]_vars

-----------------------------------------------------------------------------
(* Shared vocabulary of the properties *)

\* the last entry of msgs is an assistant entry that is still streaming
MidStream(msgs) ==
    /\ Len(msgs) > 0
    /\ msgs[Len(msgs)].type = "assistant"
    /\ IsStreamingOf(msgs[Len(msgs)])

NoEntryStreams(msgs) == \A i \in 1..Len(msgs) : ~IsStreamingOf(msgs[i])

\* the inbound history is made of responses only: each a start, then tokens,
\* then possibly a complete; open tells whether the last response is unfinished
RECURSIVE Regular(_, _)
Regular(log, open) ==
    IF log = <<>> THEN TRUE
    ELSE LET e == Head(log) IN
         CASE e.type = "start"    -> Regular(Tail(log), TRUE)
           [] e.type = "token"    -> open /\ Regular(Tail(log), TRUE)
           [] e.type = "complete" -> open /\ Regular(Tail(log), FALSE)
           [] OTHER               -> FALSE

\* the assistant entries a regular inbound history calls for: one per start,
\* its text the fragments that followed that start, in delivery order
RECURSIVE Expected(_)
Expected(log) ==
    IF log = <<>> THEN <<>>
    ELSE LET e == log[Len(log)]
             rest == Expected(SubSeq(log, 1, Len(log) - 1))
         IN CASE e.type = "start" ->
                   Append(rest, [type |-> "assistant", content |-> <<>>, isStreaming |-> TRUE])
              [] e.type = "token" ->
                   [rest EXCEPT ![Len(rest)].content = @ \o e.data]
              [] e.type = "complete" ->
                   [rest EXCEPT ![Len(rest)].isStreaming = FALSE]

\* the number of inbound events that end a response
RECURSIVE Ended(_)
Ended(log) ==
    IF log = <<>> THEN 0
    ELSE (IF Head(log).type \in {"complete", "error"} THEN 1 ELSE 0) + Ended(Tail(log))

\* the list() requests among the calls in flight
ListsInFlight(cs) == { j \in 1..Len(cs) : cs[j].op = "list" }

\* new keeps every entry of old in place with its role, and differs in text
\* only at the last entry of old, and only if that entry was streaming
Frozen(old, new) ==
    /\ Len(new) >= Len(old)
    /\ \A i \in 1..Len(old) :
        /\ new[i].type = old[i].type
        /\ new[i].content # old[i].content => (i = Len(old) /\ MidStream(old))

-----------------------------------------------------------------------------
(* C1: in every reachable state at most one transcript entry has its        *)
(* streaming flag true, and that entry is the last one.                     *)
C1_OnlyLastEntryStreams ==
    \A i \in 1..Len(messages) : IsStreamingOf(messages[i]) => i = Len(messages)

(* C2: when the inbound events so far are responses (a start, its tokens,   *)
(* possibly its complete), nothing was sent or cleared, and every queued    *)
(* update has been applied, the transcript holds one assistant entry per    *)
(* start whose text is the concatenation of that response's fragments in    *)
(* delivery order, with streaming false once its complete has arrived.      *)
C2_TextIsConcatenation ==
    (pending = <<>> /\ clearsIssued = 0 /\ sent = <<>> /\ Regular(inbound, FALSE))
        => messages = Expected(inbound)

(* C3: a channel close or failure arriving mid-stream turns the in-progress *)
(* entry's streaming flag false, keeps its text, and leaves ConnectionState *)
(* disconnected (all once the queued updates are applied).                  *)
C3_CloseEndsStream ==
    [][ ((OnClose \/ OnError) /\ MidStream(Settled.messages)) =>
          LET before == Settled.messages
              after == Settled'.messages
          IN /\ Len(after) = Len(before)
             /\ after[Len(after)].content = before[Len(before)].content
             /\ ~IsStreamingOf(after[Len(after)])
             /\ ~Settled'.isConnected ]_vars

(* C4: a send attempt (Enter key or Send button) made while disconnected,   *)
(* while the streaming gate is set, or with an input that trims to empty    *)
(* changes neither the transcript nor the queued updates, transmits nothing *)
(* and leaves the input text as it is.                                      *)
C4_RejectedSendChangesNothing ==
    [][ ((~isConnected \/ isStreaming \/ Trim(currentMessage) = <<>>)
          /\ (handleKeyPress \/ SendButton))
        => UNCHANGED <<messages, pending, sent, currentMessage>> ]_vars

\* a send attempt is rejected for streaming alone
C4_Witness == isConnected /\ isStreaming /\ Trim(currentMessage) # <<>>

(* C5: an accepted send appends exactly one user entry carrying the input   *)
(* text to the end of the transcript, hands exactly one envelope with that  *)
(* text to the channel in the same step, and empties the input.             *)
C5_AcceptedSend ==
    [][ (isConnected /\ ~isStreaming /\ Trim(currentMessage) # <<>>
          /\ (handleKeyPress \/ SendButton))
        => /\ Settled'.messages =
                Append(Settled.messages, [type |-> "user", content |-> currentMessage])
           /\ sent' = Append(sent, [message |-> currentMessage])
           /\ currentMessage' = <<>> ]_vars

\* a send of an input with surrounding blanks has been transmitted and committed
C5_Witness ==
    /\ sent # <<>>
    /\ sent[Len(sent)].message = <<" ", "x">>
    /\ \E i \in 1..Len(messages) :
          messages[i] = [type |-> "user", content |-> <<" ", "x">>]

(* C6: when the backend call of clear() fails (network failure or non-2xx   *)
(* response) a non-empty transcript is left as it was and a failure         *)
(* notification is shown.                                                   *)
C6_FailedClearKeepsTranscript ==
    [][ \A outcome \in {"status", "network"} :
          (clearChatReturn(outcome) /\ Settled.messages # <<>>)
            => /\ Settled'.messages = Settled.messages
               /\ toasts' = Append(toasts, "Failed to clear chat") ]_vars

(* C7: a failed list() (network failure, or a non-2xx response whatever its *)
(* body) leaves the document snapshot as it was and shows a notification.   *)
C7_FailedListKeepsSnapshot ==
    [][ \A i \in 1..Len(calls) :
          (fetchDocumentsReturn(i) /\ calls[i].outcome # "ok")
            => /\ documents' = documents
               /\ \E j \in 1..Len(toasts') : toasts'[j] = "Failed to fetch documents" ]_vars

(* C8: an error inbound event appends exactly one entry, of role error and  *)
(* with the server's text, to the end of the transcript and changes no      *)
(* entry already there.                                                     *)
C8_ErrorAppendsOneEntry ==
    [][ \A data \in ErrorTexts :
          OnMessageError(data)
            => /\ Settled'.messages =
                    Append(Settled.messages, [type |-> "error", content |-> data])
               /\ messages' = messages ]_vars

\* an error entry has been committed behind a streaming assistant entry
C8_Witness ==
    \E i \in 2..Len(messages) :
        /\ messages[i].type = "error"
        /\ messages[i - 1].type = "assistant"
        /\ IsStreamingOf(messages[i - 1])

(* C9: an error inbound event received mid-stream leaves no entry           *)
(* streaming, clears the streaming gate and does not change                 *)
(* ConnectionState.                                                         *)
C9_ErrorEndsStream ==
    [][ \A data \in ErrorTexts :
          (OnMessageError(data) /\ MidStream(Settled.messages))
            => /\ NoEntryStreams(Settled'.messages)
               /\ ~Settled'.isStreaming
               /\ Settled'.isConnected = Settled.isConnected ]_vars

C11_SnapshotAfterUpload ==
    (/\ uploadsDone > 0
     /\ calls = <<>>
     /\ documents.array
     /\ \A j \in 1..Len(toasts) : toasts[j] # "Failed to fetch documents")
        => documentsAt = uploadsDone

(* C12: when the response of delete(filename) is not 2xx, or the request    *)
(* fails on the network, the handler leaves the snapshot as it was, issues  *)
(* no list() and shows exactly one notification, the failure one; on a 2xx  *)
(* response it issues exactly one list(); issuing the delete issues none.   *)
C12_FailedDeleteIssuesNoList ==
    [][ /\ \A i \in 1..Len(calls) :
            deleteDocumentReturn(i) =>
                IF calls[i].outcome = "ok"
                THEN Cardinality(ListsInFlight(calls')) = Cardinality(ListsInFlight(calls)) + 1
                ELSE /\ documents' = documents
                     /\ Cardinality(ListsInFlight(calls')) = Cardinality(ListsInFlight(calls))
                     /\ toasts' = Append(toasts, "Failed to delete document")
        /\ \A filename \in FileNames :
            deleteDocument(filename) =>
                Cardinality(ListsInFlight(calls')) = Cardinality(ListsInFlight(calls)) ]_vars

\* a delete of a listed document has failed and nothing is in flight
C12_Witness ==
    /\ calls = <<>>
    /\ documents.array
    /\ documents.items # <<>>
    /\ toasts # <<>>
    /\ toasts[Len(toasts)] = "Failed to delete document"

(* C13: the channel is connected once and never again: after a channel     *)
(* error or close the socket never returns to connecting or open; in every  *)
(* state after the error or close ConnectionState is disconnected once the  *)
(* queued updates are applied; and once ConnectionState is disconnected     *)
(* after an error or close, no step makes it connected and no step          *)
(* transmits anything.                                                      *)
C13_NoReconnect ==
    /\ [](readyState \in {"errored", "closed"} => ~Settled.isConnected)
    /\ [][ /\ readyState \in {"errored", "closed"} => readyState' \in {"errored", "closed"}
           /\ readyState # "connecting" => readyState' # "connecting"
           /\ (readyState \in {"errored", "closed"} /\ ~isConnected)
                   => (~isConnected' /\ sent' = sent) ]_vars

\* the channel closed after it had been connected, with a sendable input typed
C13_Witness ==
    /\ readyState = "closed"
    /\ ~isConnected
    /\ pending = <<>>
    /\ Trim(currentMessage) # <<>>
    /\ sent # <<>>

(* C14: a malformed inbound payload (not JSON, not an object, or a token    *)
(* envelope without data) changes neither the transcript, nor the           *)
(* accumulation buffer, nor the streaming gate, nor ConnectionState, be it  *)
(* as committed or as it is once the queued updates are applied.            *)
C14_MalformedPayloadDropped ==
    [][ ((\E kind \in BadPayloads : OnMessageDropped(kind))
          \/ (\E eager \in BOOLEAN : OnMessageTokenNoData(eager)))
        => /\ UNCHANGED <<messages, isStreaming, isConnected, currentResponseRef>>
           /\ Settled' = Settled ]_vars

(* C15: a complete event changes no entry's text, role or position and no   *)
(* entry's streaming flag except the last one's; when the last entry is an  *)
(* assistant entry its flag is false afterwards, otherwise the transcript   *)
(* is unchanged; the streaming gate is cleared, and the accumulation buffer *)
(* and ConnectionState are untouched (all once the queued updates are       *)
(* applied).                                                                *)
C15_CompleteKeepsText ==
    [][ OnMessageComplete =>
          LET before == Settled.messages
              after == Settled'.messages
              n == Len(before)
          IN /\ Len(after) = n
             /\ \A i \in 1..n :
                   /\ after[i].type = before[i].type
                   /\ after[i].content = before[i].content
                   /\ i < n => after[i] = before[i]
             /\ IF n > 0 /\ before[n].type = "assistant"
                THEN ~IsStreamingOf(after[n])
                ELSE after = before
             /\ messages' = messages
             /\ ~Settled'.isStreaming
             /\ Settled'.isConnected = Settled.isConnected
             /\ currentResponseRef' = currentResponseRef ]_vars

\* a complete has ended a response whose text was streamed
C15_Witness ==
    /\ pending = <<>>
    /\ inbound # <<>>
    /\ inbound[Len(inbound)].type = "complete"
    /\ messages # <<>>
    /\ messages[Len(messages)] =
            [type |-> "assistant", content |-> <<"a">>, isStreaming |-> FALSE]
    /\ ~isStreaming

(* C16: an inbound envelope whose type is none of start, token, complete,   *)
(* error changes neither the transcript, nor the accumulation buffer, nor   *)
(* the streaming gate, nor ConnectionState, be it as committed or as it is  *)
(* once the queued updates are applied, and shows no notification.          *)
C16_UnknownTypeIgnored ==
    [][ (\E type \in OtherTypes : OnMessageOther(type))
        => /\ UNCHANGED <<messages, isStreaming, isConnected, currentResponseRef, toasts>>
           /\ Settled' = Settled ]_vars

\* an envelope of unknown type has arrived and a response is streaming
C16_Witness ==
    /\ ignored > 0
    /\ inbound # <<>>
    /\ inbound[Len(inbound)].type = "start"
    /\ MidStream(messages)
    /\ isStreaming

(* C17: in every reachable state the streaming gate is true exactly when    *)
(* the last transcript entry is an assistant entry whose streaming flag is  *)
(* true.                                                                    *)
C17_GateAgreesWithTranscript == isStreaming <=> MidStream(messages)

(* C18: at most one user turn is outstanding: the envelopes transmitted     *)
(* never outnumber the responses that have ended (by complete or error) by  *)
(* more than one, so a send is accepted only when every earlier one has     *)
(* been answered to its end.                                                *)
C18_OneTurnOutstanding == Len(sent) <= Ended(inbound) + 1

(* C19: clear(), both when it is requested and when its call returns,       *)
(* leaves ConnectionState, the streaming gate, the accumulation buffer and  *)
(* the document snapshot as they were, and requesting it leaves the         *)
(* transcript too; when the response arrives the transcript is empty once   *)
(* the queued updates are applied, whatever was appended since the request; *)
(* a token or complete event that finds the transcript empty leaves it      *)
(* empty, a token leaves the gate as it was, and no send is transmitted     *)
(* while the gate is set.                                                   *)
C19_ClearChangesOnlyTranscript ==
    [][ LET before == Settled
            after == Settled'
            returned == \E outcome \in ClearOutcomes : clearChatReturn(outcome)
            answered == \E outcome \in ClearOutcomes \ {"network"} : clearChatReturn(outcome)
            token == \E data \in Fragments, eager \in BOOLEAN : OnMessageToken(data, eager)
        IN /\ (clearChat \/ returned)
                => /\ UNCHANGED <<isConnected, isStreaming, currentResponseRef, documents>>
                   /\ after.isConnected = before.isConnected
                   /\ after.isStreaming = before.isStreaming
           /\ clearChat => after.messages = before.messages
           /\ answered => after.messages = <<>>
           /\ ((OnMessageComplete \/ token) /\ before.messages = <<>>)
                => after.messages = <<>>
           /\ token => after.isStreaming = before.isStreaming
           /\ isStreaming => sent' = sent ]_vars

\* a clear completed mid-stream and a later token found the transcript empty
C19_Witness ==
    /\ pending = <<>>
    /\ messages = <<>>
    /\ isStreaming
    /\ clearsIssued > 0
    /\ clearCalls = 0
    /\ currentResponseRef # <<>>
    /\ Len(inbound) >= 2
    /\ inbound[Len(inbound) - 1].type = "start"
    /\ inbound[Len(inbound)].type = "token"

(* C20: the callback of an auto-clear timer clears the upload status only   *)
(* when the status shown is the finished one (success or error) of the      *)
(* upload that armed the timer, never the status of another upload; and the *)
(* response of an upload turns the status into that upload's success or     *)
(* error.                                                                   *)
C20_TimerClearsOwnStatus ==
    [][ /\ UploadProgressTimeout =>
            \/ uploadProgress = NoProgress
            \/ /\ uploadProgress.filename = Head(timers)
               /\ uploadProgress.status \in {"success", "error"}
        /\ \A i \in 1..Len(calls) :
            handleFileUploadReturn(i) =>
                uploadProgress' = Progress(calls[i].file,
                                           IF calls[i].outcome = "ok" THEN "success" ELSE "error")
      ]_vars

====
